---- MODULE Spec2Model ----
(***************************************************************************)
(* generic.js: View -> CollectionView -> TableView.                        *)
(*                                                                         *)
(* The model follows src/src/generic.js (CollectionView), src/unnamed/     *)
(* part_001 (TableView) and src/unnamed/part_003 (View).  A view object is *)
(* a record of its fields; every handler is an operator from the record    *)
(* before the call to the record after it, and every action applies one    *)
(* handler to the variables.  The Backbone collection is the environment:  *)
(* it changes its models array and then dispatches the event.              *)
(***************************************************************************)
EXTENDS Integers, Sequences, FiniteSets, TLC

\* ------------------------------------------------------------------ bounds
NModels == 3        \* model instances that exist
MaxLimit == 2       \* largest options.limit tried
MaxTheads == 2      \* times a table with columns is rendered
NKids == 2          \* child view objects of the plain View
MaxChildren == 3    \* longest children list of the plain View
MaxDestroys == 2    \* "destroy" notifications counted per view

\* limit: null.  Every use of limit in the code is a truthiness test
\* (self.limit || ..., limit && ...), so null and 0 behave alike.
Null == 0

\* ------------------------------------------------------------------ strings
\* A string is the sequence of its characters.

IsSpace(c) == c = " "

RECURSIVE TrimLeft(_)
TrimLeft(s) ==
    IF s # <<>> /\ IsSpace(Head(s)) THEN TrimLeft(Tail(s)) ELSE s

RECURSIVE TrimRight(_)
TrimRight(s) ==
    IF s # <<>> /\ IsSpace(s[Len(s)]) THEN TrimRight(SubSeq(s, 1, Len(s) - 1)) ELSE s

\* String.prototype.trim
trim(s) == TrimRight(TrimLeft(s))

UpperCase == <<"A", "B", "C", "D", "E", "F", "G", "H", "I", "J", "K", "L", "M",
               "N", "O", "P", "Q", "R", "S", "T", "U", "V", "W", "X", "Y", "Z">>
LowerCase == <<"a", "b", "c", "d", "e", "f", "g", "h", "i", "j", "k", "l", "m",
               "n", "o", "p", "q", "r", "s", "t", "u", "v", "w", "x", "y", "z">>

toLowerCase1(c) ==
    IF \E i \in 1..Len(UpperCase) : UpperCase[i] = c
    THEN LowerCase[CHOOSE i \in 1..Len(UpperCase) : UpperCase[i] = c]
    ELSE c

\* String.prototype.toLowerCase
toLowerCase(s) == [i \in 1..Len(s) |-> toLowerCase1(s[i])]

\* RegExp(pattern, "i").test(value) for a pattern of letters and digits:
\* value holds pattern as a substring, case ignored.
RegExpTestI(pattern, value) ==
    LET p == toLowerCase(pattern)
        v == toLowerCase(value)
    IN  \E i \in 0..(Len(v) - Len(p)) : SubSeq(v, i + 1, i + Len(p)) = p

\* ------------------------------------------------------------------ models
\* A model instance is named by its cid.  Its attributes are fixed.
Models == 1..NModels

NamePool == << <<"a", "b">>, <<"B", "c">>, <<"c", "d">>, <<"b">>, <<"C", "a">> >>

Digit(n) == CASE n = 0 -> "0" [] n = 1 -> "1" [] n = 2 -> "2" [] n = 3 -> "3"
              [] n = 4 -> "4" [] n = 5 -> "5" [] n = 6 -> "6" [] n = 7 -> "7"
              [] n = 8 -> "8" [] OTHER -> "9"

\* model.get("name")
ModelName(m) == NamePool[((m - 1) % Len(NamePool)) + 1]

\* model.get("id"): the first two models are new (no id yet), <<>> is "no id"
ModelId(m) == IF m <= 2 THEN <<>> ELSE <<Digit(m % 10)>>

\* the values of model.keys(): the attributes the model has
ModelValues(m) == IF ModelId(m) = <<>> THEN <<ModelName(m)>> ELSE <<ModelId(m), ModelName(m)>>

\* collection.checkFilter(model): the collection's own predicate; every third
\* model is one it rejects
CollectionCheckFilter(m) == m % 3 # 0

\* ------------------------------------------------------------------ sequences
Range(s) == {s[i] : i \in 1..Len(s)}

\* _.reject(list, x => x = e) / removing an element from its parent
Without(s, e) == SelectSeq(s, LAMBDA x : x # e)

InsertAt(s, i, e) == SubSeq(s, 1, i - 1) \o <<e>> \o SubSeq(s, i, Len(s))

\* Array.prototype.slice(begin, end) / collection.slice, 0-based, end excluded
slice(s, begin, end) ==
    LET e == IF end > Len(s) THEN Len(s) ELSE end
    IN  IF begin >= e THEN <<>> ELSE SubSeq(s, begin + 1, e)

\* all orders of the elements of a sequence
Perms(s) ==
    {p \in [1..Len(s) -> Range(s)] : \A i, j \in 1..Len(s) : i # j => p[i] # p[j]}

\* all sequences of distinct models
Collections ==
    UNION {{p \in [1..n -> Models] : \A i, j \in 1..n : i # j => p[i] # p[j]} : n \in 0..NModels}

\* ------------------------------------------------------------------ state
VARIABLES
    collection,        \* collection.models, the ordered models (cids)
    collectionDefined, \* FALSE when the view was given no collection
    sortColumn,        \* collection.sortColumn
    sortOrder,         \* collection.sortOrder
    children,          \* View.children, the ordered child views
    childrenDefined,   \* FALSE while View.children is still undefined
    container,         \* the elements in getItemsContainer(), in DOM order
    rendered,          \* View.rendered of the collection view
    limit,             \* CollectionView.limit
    storedLimit,       \* TableView._limit (Null when deleted)
    showAll,           \* TableView.showAll
    searchFilter,      \* CollectionView.searchFilter
    itemRendered,      \* cids of the live item views whose render() has run
    destroyed,         \* cids of the live item views whose destroy() has run
    modelBound,        \* cids of the live item views subscribed to their model
    collectionHandlers,\* the handlers subscribed to the collection's events
    viewDestroyed,     \* the collection view's destroyed property
    columns,           \* TableView.columns (<<>> when undefined)
    theads,            \* the <thead> rows appended to the table
    multipleSelection, \* TableView.multipleSelection
    selected,          \* cids of the live item views whose row has class "selected"
    triggered,         \* notifications the view emitted in the last handler
    console,           \* console.debug lines of the last handler
    sortCalls,         \* collection.sortByColumn calls of the last handler
    thrown,            \* whether the last handler ended with an exception
    tree,              \* a plain View, its child views and their bound models
    registered         \* history: the child last passed to add under each id

collectionVars == <<collection, collectionDefined, sortColumn, sortOrder>>
viewVars == <<children, childrenDefined, container, rendered, limit,
              storedLimit, showAll, searchFilter, itemRendered, destroyed,
              modelBound, collectionHandlers, viewDestroyed>>
tableVars == <<columns, theads, multipleSelection, selected>>
outVars == <<triggered, console, sortCalls, thrown>>
treeVars == <<tree, registered>>
vars == <<collectionVars, viewVars, tableVars, outVars, treeVars>>

\* The view object at the start of a handler: its fields, an empty document
\* fragment, nothing emitted yet and no child dropped yet.
Self ==
    [children |-> children, childrenDefined |-> childrenDefined,
     container |-> container, fragment |-> <<>>,
     rendered |-> rendered, limit |-> limit, storedLimit |-> storedLimit,
     showAll |-> showAll, searchFilter |-> searchFilter,
     itemRendered |-> itemRendered, destroyed |-> destroyed,
     modelBound |-> modelBound,
     theads |-> theads, selected |-> selected, dropped |-> {},
     triggered |-> <<>>, console |-> <<>>, sortCalls |-> <<>>, thrown |-> FALSE]

\* The item views that can still be reached: the children and the elements in
\* the DOM.  A view that is neither is garbage; what is kept about item views
\* (rendered, destroyed, selected) is kept for the live ones.
LiveCids(self) ==
    {view.cid : view \in Range(self.children) \cup Range(self.container) \cup Range(self.fragment)}

\* The view object a handler leaves behind becomes the next state.
CommitView(self) ==
    /\ children' = self.children
    /\ childrenDefined' = self.childrenDefined
    /\ container' = self.container
    /\ rendered' = self.rendered
    /\ limit' = self.limit
    /\ storedLimit' = self.storedLimit
    /\ showAll' = self.showAll
    /\ searchFilter' = self.searchFilter
    /\ itemRendered' = self.itemRendered \cap LiveCids(self)
    /\ destroyed' = self.destroyed \cap LiveCids(self)
    /\ modelBound' = self.modelBound \cap LiveCids(self)
    /\ theads' = self.theads
    /\ selected' = self.selected \cap LiveCids(self)
    /\ triggered' = self.triggered
    /\ console' = self.console
    /\ sortCalls' = self.sortCalls
    /\ thrown' = self.thrown
    /\ UNCHANGED treeVars

\* ... of a handler that neither subscribes nor unsubscribes
Commit(self) ==
    /\ CommitView(self)
    /\ UNCHANGED <<collectionHandlers, viewDestroyed>>

\* ------------------------------------------------------------------ View
\* View.add(childView) as the collection view calls it.  The "destroy"
\* subscription names self, which add never declares: it resolves to the
\* global object, whose onChildViewDestroyed is undefined, so nothing is
\* subscribed.  (childrenMap, read by get() alone, is not part of this state.)
add(self, childView) ==
    [self EXCEPT !.children = Append(@, childView),
                 !.childrenDefined = TRUE,
                 !.triggered = Append(@, "add")]

\* View.remove(childView)
remove(self, childView) ==
    [self EXCEPT !.children = SelectSeq(@, LAMBDA view : view.cid # childView.cid),
                 !.dropped = @ \cup {childView.cid},
                 !.triggered = Append(@, "remove")]

\* View.destroy() of an item view: Backbone's remove takes its element out of
\* the DOM; an item view has no children; nobody listens to its "destroy".
\* model.off("close", this) names an event the view never subscribed to, so
\* the subscriptions of bindModel stay.
destroyItem(self, view) ==
    [self EXCEPT !.container = Without(@, view),
                 !.fragment = Without(@, view),
                 !.destroyed = @ \cup {view.cid}]

\* ------------------------------------------------------------------ CollectionView
\* checkSearchFilter(model), searchProperties unset: all attributes are searched
checkSearchFilter(self, model) ==
    IF Len(self.searchFilter) > 0
    THEN \E i \in 1..Len(ModelValues(model)) :
            RegExpTestI(self.searchFilter, ModelValues(model)[i])
    ELSE TRUE

checkFilter(self, model) ==
    CollectionCheckFilter(model) /\ checkSearchFilter(self, model)

\* findViewByModel(model): _.each does not stop, so the last match wins;
\* indices are 1-based here, -1 is "none"
findViewByModel(self, model) ==
    LET hits == {idx \in 1..Len(self.children) :
                    \/ self.children[idx].model = model
                    \/ /\ ModelId(self.children[idx].model) # <<>>
                       /\ ModelId(self.children[idx].model) = ModelId(model)}
    IN  IF hits = {} THEN -1 ELSE CHOOSE idx \in hits : \A j \in hits : j <= idx

\* The cids a handler can still observe: those of the live views and those of
\* the views it has dropped itself.
UsedCids(self) ==
    LiveCids(self) \cup self.dropped \cup self.itemRendered \cup self.destroyed \cup self.selected

\* The cid of a new view object: one that no observable view carries.
\* (Backbone numbers its views without end; a cid whose view is garbage can be
\* observed nowhere, so giving it out again keeps the states finite.)
FreshCid(self) ==
    CHOOSE n \in 1..(Cardinality(UsedCids(self)) + 1) :
        n \notin UsedCids(self) /\ \A k \in 1..(n - 1) : k \in UsedCids(self)

\* createViewForModel(model): a new item view bound to the model
createViewForModel(self, model) == [cid |-> FreshCid(self), model |-> model]

\* View.initialize of the new item view: bindModel subscribes it to the
\* "change" and "destroy" events of its model
bindItem(self, view) == [self EXCEPT !.modelBound = @ \cup {view.cid}]

\* addItemView with the limit test left out
addItemView_NoLimit(self, coll, model, toFragment) ==
    LET viewIdx == findViewByModel(self, model)
    IN  IF viewIdx # -1
        THEN [self EXCEPT !.console = Append(@, "view exists, don't add")]
        ELSE IF ~checkFilter(self, model)
        THEN self
        ELSE LET view == createViewForModel(self, model)
                 added == add(bindItem(self, view), view)
             IN  IF added.rendered
                 THEN [added EXCEPT
                         !.fragment = IF toFragment THEN Append(@, view) ELSE @,
                         !.container = IF toFragment THEN @ ELSE Append(@, view),
                         !.itemRendered = @ \cup {view.cid}]
                 ELSE added

\* addItemView with the "view exists" test left out
addItemView_NoGuard(self, coll, model, toFragment) ==
    LET lim == IF self.limit # Null THEN self.limit ELSE Len(coll)
    IN  IF (self.childrenDefined /\ Len(self.children) >= lim) \/ ~checkFilter(self, model)
        THEN self
        ELSE LET view == createViewForModel(self, model)
                 added == add(bindItem(self, view), view)
             IN  IF added.rendered
                 THEN [added EXCEPT
                         !.fragment = IF toFragment THEN Append(@, view) ELSE @,
                         !.container = IF toFragment THEN @ ELSE Append(@, view),
                         !.itemRendered = @ \cup {view.cid}]
                 ELSE added

\* addItemView with the checkFilter test left out
addItemView_NoFilter(self, coll, model, toFragment) ==
    LET viewIdx == findViewByModel(self, model)
        lim == IF self.limit # Null THEN self.limit ELSE Len(coll)
    IN  IF viewIdx # -1
        THEN [self EXCEPT !.console = Append(@, "view exists, don't add")]
        ELSE IF self.childrenDefined /\ Len(self.children) >= lim
        THEN self
        ELSE LET view == createViewForModel(self, model)
                 added == add(bindItem(self, view), view)
             IN  IF added.rendered
                 THEN [added EXCEPT
                         !.fragment = IF toFragment THEN Append(@, view) ELSE @,
                         !.container = IF toFragment THEN @ ELSE Append(@, view),
                         !.itemRendered = @ \cup {view.cid}]
                 ELSE added

\* addItemView(model, collection, options); toFragment is options.container
addItemView(self, coll, model, toFragment) ==
    LET viewIdx == findViewByModel(self, model)
        lim == IF self.limit # Null THEN self.limit ELSE Len(coll)
    IN  IF viewIdx # -1
        THEN [self EXCEPT !.console = Append(@, "view exists, don't add")]
        ELSE IF (self.childrenDefined /\ Len(self.children) >= lim) \/ ~checkFilter(self, model)
        THEN self
        ELSE LET view == createViewForModel(self, model)
                 added == add(bindItem(self, view), view)
             IN  IF added.rendered
                 THEN [added EXCEPT
                         !.fragment = IF toFragment THEN Append(@, view) ELSE @,
                         !.container = IF toFragment THEN @ ELSE Append(@, view),
                         !.itemRendered = @ \cup {view.cid}]
                 ELSE added

RECURSIVE addItemViews(_, _, _)
\* _(models).each(function (model) { self.addItemView(model); })
addItemViews(self, coll, models) ==
    IF models = <<>> THEN self
    ELSE addItemViews(addItemView(self, coll, Head(models), FALSE), coll, Tail(models))

\* removeItemView that destroys the view whether or not the collection view
\* is rendered
removeItemView_AlwaysDestroy(self, coll, model) ==
    LET found == {idx \in 1..Len(self.children) : self.children[idx].model = model}
        view == self.children[CHOOSE idx \in found : \A j \in found : idx <= j]
        removed == IF found = {} THEN self
                   ELSE destroyItem(remove(self, view), view)
        lim == IF removed.limit # Null THEN removed.limit ELSE Len(coll)
        diff == lim - Len(removed.children)
        begin == Len(removed.children)
        end == Len(removed.children) + diff
    IN  IF ~removed.childrenDefined
        THEN [removed EXCEPT !.thrown = TRUE]
        ELSE IF diff > 0
        THEN addItemViews(removed, coll, slice(coll, begin, end))
        ELSE removed

\* removeItemView that never destroys the view it removes
removeItemView_NeverDestroy(self, coll, model) ==
    LET found == {idx \in 1..Len(self.children) : self.children[idx].model = model}
        view == self.children[CHOOSE idx \in found : \A j \in found : idx <= j]
        removed == IF found = {} THEN self
                   ELSE remove(self, view)
        lim == IF removed.limit # Null THEN removed.limit ELSE Len(coll)
        diff == lim - Len(removed.children)
        begin == Len(removed.children)
        end == Len(removed.children) + diff
    IN  IF ~removed.childrenDefined
        THEN [removed EXCEPT !.thrown = TRUE]
        ELSE IF diff > 0
        THEN addItemViews(removed, coll, slice(coll, begin, end))
        ELSE removed

\* removeItemView(model, collection, options); coll is the collection after
\* the model left it
removeItemView(self, coll, model) ==
    LET found == {idx \in 1..Len(self.children) : self.children[idx].model = model}
        view == self.children[CHOOSE idx \in found : \A j \in found : idx <= j]
        removed == IF found = {} THEN self
                   ELSE IF self.rendered THEN destroyItem(remove(self, view), view)
                   ELSE remove(self, view)
        lim == IF removed.limit # Null THEN removed.limit ELSE Len(coll)
        diff == lim - Len(removed.children)
        begin == Len(removed.children)
        end == Len(removed.children) + diff
    IN  IF ~removed.childrenDefined
        THEN [removed EXCEPT !.thrown = TRUE]   \* self.children.length of undefined
        ELSE IF diff > 0
        THEN addItemViews(removed, coll, slice(coll, begin, end))
        ELSE removed

RECURSIVE sortEach(_, _, _, _, _)
\* the _.each loop of onCollectionSort
sortEach(self, coll, models, lim, renderedViews) ==
    IF models = <<>> THEN self
    ELSE LET model == Head(models)
             viewIdx == findViewByModel(self, model)
         IN  IF lim # Null /\ renderedViews >= lim
             THEN sortEach(self, coll, Tail(models), lim, renderedViews)
             ELSE IF viewIdx > -1
             THEN LET view == self.children[viewIdx]
                  IN  sortEach([self EXCEPT !.container = Without(@, view),
                                            !.fragment = Append(Without(@, view), view)],
                               coll, Tail(models), lim, renderedViews + 1)
             ELSE sortEach(addItemView(self, coll, model, TRUE),
                           coll, Tail(models), lim, renderedViews + 1)

\* onCollectionSort appending the fragment instead of replacing the content
onCollectionSort_Append(self, coll) ==
    LET models == SelectSeq(coll, LAMBDA model : checkFilter(self, model))
        lim == self.limit
        looped == sortEach([self EXCEPT !.limit = Len(coll) + 1], coll, models, lim, 0)
    IN  [looped EXCEPT !.limit = lim, !.container = @ \o looped.fragment, !.fragment = <<>>]

\* onCollectionSort that walks all models of the collection, the filtered-out
\* ones too
onCollectionSort_NoFilter(self, coll) ==
    LET models == coll
        lim == self.limit
        looped == sortEach([self EXCEPT !.limit = Len(coll) + 1], coll, models, lim, 0)
    IN  [looped EXCEPT !.limit = lim, !.container = looped.fragment, !.fragment = <<>>]

RECURSIVE destroyHidden(_, _)
\* destroy() on every view of kids that is not in the fragment
destroyHidden(self, kids) ==
    IF kids = <<>> THEN self
    ELSE destroyHidden(IF Head(kids) \in Range(self.fragment) THEN self
                       ELSE destroyItem(self, Head(kids)),
                       Tail(kids))

\* onCollectionSort that destroys the children it does not display
onCollectionSort_DestroyHidden(self, coll) ==
    LET models == SelectSeq(coll, LAMBDA model : checkFilter(self, model))
        lim == self.limit
        looped == sortEach([self EXCEPT !.limit = Len(coll) + 1], coll, models, lim, 0)
        pruned == destroyHidden(looped, looped.children)
    IN  [pruned EXCEPT !.limit = lim, !.container = pruned.fragment, !.fragment = <<>>]

onCollectionSort(self, coll) ==
    LET models == SelectSeq(coll, LAMBDA model : checkFilter(self, model))
        lim == self.limit
        looped == sortEach([self EXCEPT !.limit = Len(coll) + 1], coll, models, lim, 0)
    IN  [looped EXCEPT !.limit = lim, !.container = looped.fragment, !.fragment = <<>>]

search(self, coll, value) ==
    onCollectionSort([self EXCEPT !.searchFilter = trim(value)], coll)

\* render that leaves the rendered flag as it was
render_KeepFlag(self) ==
    LET kids == self.children
    IN  [self EXCEPT !.container = SelectSeq(@, LAMBDA el : el \notin Range(kids)) \o kids,
                     !.itemRendered = @ \cup {kids[i].cid : i \in 1..Len(kids)}]

\* CollectionView.render: View.render, then every child is moved into a
\* fragment and rendered, and the fragment is appended to the items container
render(self) ==
    LET kids == self.children
    IN  [self EXCEPT !.rendered = TRUE,
                     !.container = SelectSeq(@, LAMBDA el : el \notin Range(kids)) \o kids,
                     !.itemRendered = @ \cup {kids[i].cid : i \in 1..Len(kids)}]

\* ------------------------------------------------------------------ TableView
\* toggleShowAll that forgets the stored limit when leaving "show all"
toggleShowAll_NoRestore(self, coll) ==
    LET logged == [self EXCEPT !.console = Append(@, "toggleShowAll")]
        swapped == IF logged.showAll
                   THEN [logged EXCEPT !.storedLimit = Null]
                   ELSE [logged EXCEPT !.storedLimit = logged.limit, !.limit = Null]
    IN  onCollectionSort([swapped EXCEPT !.showAll = ~@], coll)

toggleShowAll(self, coll) ==
    LET logged == [self EXCEPT !.console = Append(@, "toggleShowAll")]
        swapped == IF logged.showAll
                   THEN [logged EXCEPT !.limit = logged.storedLimit, !.storedLimit = Null]
                   ELSE [logged EXCEPT !.storedLimit = logged.limit, !.limit = Null]
    IN  onCollectionSort([swapped EXCEPT !.showAll = ~@], coll)

\* sortable(column): the fixed list of sortable column names
SortableColumns ==
    { <<"s", "t", "a", "t", "u", "s">>, <<"n", "a", "m", "e">>,
      <<"p", "r", "o", "v", "i", "d", "e", "r">>,
      <<"c", "o", "m", "p", "u", "t", "e", " ", "p", "l", "a", "t", "f", "o", "r", "m">>,
      <<"t", "y", "p", "e">>, <<"z", "o", "n", "e">>,
      <<"s", "e", "n", "s", "o", "r">>, <<"r", "e", "g", "i", "o", "n">> }

sortable(column) == toLowerCase(column) \in SortableColumns

\* One <th> of renderTableHeader: affector is the <a> (when the column is
\* sortable and the collection holds more than one model), icon the class of
\* its last <i>: "none", "up" (icon-sort-up) or "down" (icon-sort-down).
headerCell(coll, sortCol, sortOrd, title) ==
    IF sortable(title) /\ Len(coll) > 1
    THEN [title |-> title, affector |-> TRUE,
          icon |-> IF sortCol = toLowerCase(title)
                   THEN (IF sortOrd = "asc" THEN "up" ELSE "down")
                   ELSE "none"]
    ELSE [title |-> title, affector |-> FALSE, icon |-> "none"]

\* renderTableHeader: a new <thead> is appended on every call
renderTableHeader(self, cols, coll, sortCol, sortOrd) ==
    IF cols = <<>> THEN self
    ELSE [self EXCEPT !.theads =
            Append(@, [i \in 1..Len(cols) |-> headerCell(coll, sortCol, sortOrd, cols[i])])]

\* TableView.render
tableRender(self, cols, coll, sortCol, sortOrd) ==
    render(renderTableHeader(self, cols, coll, sortCol, sortOrd))

\* the affectors of the table: <<thead, cell>> positions holding an <a>
Affectors(heads) ==
    UNION {{<<h, c>> : c \in {c \in 1..Len(heads[h]) : heads[h][c].affector}} :
             h \in 1..Len(heads)}

\* updateHeaderIcons that always shows the ascending icon
updateHeaderIcons_AlwaysUp(heads, a) ==
    LET text == heads[a[1]][a[2]].title
        reset == [h \in 1..Len(heads) |->
                    [c \in 1..Len(heads[h]) |->
                        IF heads[h][c].affector /\ heads[h][c].title # text
                        THEN [heads[h][c] EXCEPT !.icon = "none"]
                        ELSE heads[h][c]]]
    IN  [reset EXCEPT ![a[1]][a[2]].icon = "up"]

\* updateHeaderIcons(a)
updateHeaderIcons(heads, a) ==
    LET text == heads[a[1]][a[2]].title
        reset == [h \in 1..Len(heads) |->
                    [c \in 1..Len(heads[h]) |->
                        IF heads[h][c].affector /\ heads[h][c].title # text
                        THEN [heads[h][c] EXCEPT !.icon = "none"]
                        ELSE heads[h][c]]]
        icon == reset[a[1]][a[2]].icon
    IN  [reset EXCEPT ![a[1]][a[2]].icon =
            IF icon = "down" THEN "up"
            ELSE IF icon = "up" THEN "down"
            ELSE "up"]

\* sort(e), e.currentTarget the affector a; the call to collection.sortByColumn
\* is recorded, its effect on the collection is SortByColumn below
sort(self, coll, a) ==
    LET column == toLowerCase(self.theads[a[1]][a[2]].title)
        heads == updateHeaderIcons(self.theads, a)
        order == IF heads[a[1]][a[2]].icon = "up" THEN "asc" ELSE "desc"
    IN  IF Len(coll) > 1
        THEN [self EXCEPT !.theads = heads,
                          !.sortCalls = Append(@, [column |-> column, order |-> order])]
        ELSE self

\* the rows select() counts: tr.resourceMain.selected inside the table
SelectedRows(self) == {i \in 1..Len(self.container) : self.container[i].cid \in self.selected}

\* select that notifies only when the selection becomes empty or non-empty
select_OnTransition(self, multiple, row, targetIsTd) ==
    IF multiple
    THEN LET toggled == IF targetIsTd
                        THEN [self EXCEPT !.selected =
                                IF row.cid \in @ THEN @ \ {row.cid} ELSE @ \cup {row.cid}]
                        ELSE self
         IN  IF SelectedRows(toggled) # {} /\ SelectedRows(self) = {}
             THEN [toggled EXCEPT !.triggered = Append(@, "selected")]
             ELSE IF SelectedRows(toggled) = {} /\ SelectedRows(self) # {}
             THEN [toggled EXCEPT !.triggered = Append(@, "unselected")]
             ELSE toggled
    ELSE self

\* select(eventElement): row is the clicked row, targetIsTd whether the click
\* landed on the <td> itself and not on an element inside it
select(self, multiple, row, targetIsTd) ==
    IF multiple
    THEN LET toggled == IF targetIsTd
                        THEN [self EXCEPT !.selected =
                                IF row.cid \in @ THEN @ \ {row.cid} ELSE @ \cup {row.cid}]
                        ELSE self
         IN  IF SelectedRows(toggled) # {}
             THEN [toggled EXCEPT !.triggered = Append(@, "selected")]
             ELSE [toggled EXCEPT !.triggered = Append(@, "unselected")]
    ELSE self

\* CollectionView.initialize on a fresh view that was given a collection
initialize(coll, optLimit) ==
    addItemViews(
        [children |-> <<>>, childrenDefined |-> FALSE,
         container |-> <<>>, fragment |-> <<>>, rendered |-> FALSE,
         limit |-> IF optLimit # Null THEN optLimit ELSE Null,
         storedLimit |-> Null, showAll |-> FALSE, searchFilter |-> <<>>,
         itemRendered |-> {}, destroyed |-> {}, modelBound |-> {},
         theads |-> <<>>, selected |-> {}, dropped |-> {},
         triggered |-> <<>>, console |-> <<>>, sortCalls |-> <<>>, thrown |-> FALSE],
        coll, coll)

\* CollectionView.initialize; without a collection (self.collection is
\* undefined) no child view is made and nothing is subscribed
CollectionView_initialize(hasCollection, coll, optLimit) ==
    IF hasCollection THEN initialize(coll, optLimit) ELSE initialize(<<>>, optLimit)

\* TableView.initialize: self.collection.on("toggleShowAll", ...) follows
\* CollectionView.initialize and reads a property of undefined when there is
\* no collection
TableView_initialize(hasCollection, coll, optLimit) ==
    LET self == CollectionView_initialize(hasCollection, coll, optLimit)
    IN  IF hasCollection THEN self ELSE [self EXCEPT !.thrown = TRUE]

\* ------------------------------------------------------------------ View with children
\* A plain View (the parent), the child view objects a caller hands to its
\* add(), and the model each child view was constructed with.  The elements
\* are in no document here, so Backbone's $el.remove() changes nothing.
Parent == 0
Kids == 1..NKids
NoView == -1                      \* undefined, where a view is expected

\* values that are compared with ===: a view object, a prototype method
ViewObj(v) == <<"view", v>>
Fn(name) == <<name, 0>>
Undefined == <<"undefined", 0>>
\* the global object that an undeclared self names; it has no
\* onChildViewDestroyed
GlobalSelf == <<"window", 0>>
Method(obj, name) == IF obj = GlobalSelf THEN Undefined ELSE Fn(name)

\* keys of childrenMap: an id given by the caller, or the cid of the view
IdKey(id) == <<id, 0>>
CidKey(v) == <<"cid", v>>
ChildIds == {IdKey("a")}
Keys == ChildIds \cup {CidKey(v) : v \in Kids}
\* the childId of the call add(childView)
NoId == <<"", 0>>

\* the model bound to a child view
ModelOf(v) == v

\* Backbone.Events.on(name, callback, context) on obj: no callback, no handler
Events_on(handlers, obj, name, callback, context) ==
    IF callback = Undefined THEN handlers
    ELSE handlers \cup {[obj |-> obj, name |-> name, callback |-> callback, context |-> context]}

\* Backbone.Events.off(name, callback) on obj: drops the handlers of that
\* event whose callback is the one given
Events_off(handlers, obj, name, callback) ==
    {h \in handlers : ~(h.obj = obj /\ h.name = name /\ h.callback = callback)}

\* the handlers an event of obj reaches
Listeners(handlers, obj, name) == {h \in handlers : h.obj = obj /\ h.name = name}

\* View.bindModel(model) of view v
bindModel(w, v, model) ==
    [w EXCEPT !.modelHandlers =
        Events_on(Events_on(@, model, "destroy", Fn("destroy"), ViewObj(v)),
           model, "change", Fn("onModelChange"), ViewObj(v))]

\* View.initialize of view v constructed with a model
View_initialize(w, v, model) == bindModel(w, v, model)

\* View.add(childId, childView) of the parent; with childId = NoId it is the
\* call add(childView), where the key is childView.id || childView.cid and
\* the child views have no id
View_add(w, childId, childView) ==
    LET key == IF childId = NoId THEN CidKey(childView) ELSE childId
        kids == Append(w.children, childView)
    IN  [w EXCEPT !.children = kids,
                  !.childrenDefined = TRUE,
                  !.childrenMap = [k \in (DOMAIN @) \cup {key} |->
                                      IF k = key THEN Len(kids) - 1 ELSE @[k]],
                  !.viewHandlers = Events_on(@, ViewObj(childView), "destroy",
                                      Method(GlobalSelf, "onChildViewDestroyed"), GlobalSelf),
                  !.log = Append(@, <<"add", childView>>)]

\* View.get(childId) of the parent: this.children[this.childrenMap[childId]]
View_get(w, childId) ==
    IF ~w.childrenDefined THEN NoView
    ELSE IF childId \notin DOMAIN w.childrenMap THEN NoView
    ELSE LET idx == w.childrenMap[childId]
         IN  IF idx + 1 \in 1..Len(w.children) THEN w.children[idx + 1] ELSE NoView

\* View.remove(childView) of the parent
View_remove(w, childView) ==
    [w EXCEPT !.children = SelectSeq(@, LAMBDA view : view # childView),
              !.log = Append(@, <<"remove", childView>>)]

\* View.onChildViewDestroyed(childView) of the parent
onChildViewDestroyed(w, childView) ==
    [w EXCEPT !.children = SelectSeq(@, LAMBDA view : view # childView)]

\* this.trigger("destroy", this) of view v: the notification is counted and
\* the handlers subscribed to it run
triggerDestroy(w, v) ==
    LET counted == [w EXCEPT !.emitted[v] = @ + 1]
    IN  IF \E h \in Listeners(w.viewHandlers, ViewObj(v), "destroy") :
                h.callback = Fn("onChildViewDestroyed")
        THEN onChildViewDestroyed(counted, v)
        ELSE counted

\* View.destroy() of a child view: it has a model and no children
destroyKid(w, v) ==
    triggerDestroy([w EXCEPT !.destroyed[v] = TRUE,
                             !.modelHandlers = Events_off(@, ModelOf(v), "close", ViewObj(v))],
                   v)

RECURSIVE destroyEach(_, _)
\* _(this.children).each(function (view) { view.destroy(); })
destroyEach(w, views) ==
    IF views = <<>> THEN w ELSE destroyEach(destroyKid(w, Head(views)), Tail(views))

\* View.destroy() of view v; the parent has children and no model
View_destroy(w, v) ==
    IF v = Parent
    THEN LET marked == [w EXCEPT !.destroyed[Parent] = TRUE]
             cascaded == IF marked.childrenDefined
                         THEN destroyEach(marked, marked.children)
                         ELSE marked
         IN  triggerDestroy(cascaded, Parent)
    ELSE destroyKid(w, v)

\* View.onModelChange(model) of view v: the bound elements get the new text
onModelChange(w, v) == [w EXCEPT !.log = Append(@, <<"onModelChange", v>>)]

\* View.render() of view v, no template
View_render(w, v) == [w EXCEPT !.rendered[v] = TRUE]

\* model.trigger(name): the callback of every handler runs on its context
\* (a model is bound by one view, so one handler at most)
modelTrigger(w, model, name) ==
    LET hs == Listeners(w.modelHandlers, model, name)
        h == CHOOSE h \in hs : TRUE
    IN  IF hs = {} THEN w
        ELSE IF h.callback = Fn("destroy") THEN View_destroy(w, h.context[2])
        ELSE onModelChange(w, h.context[2])

RECURSIVE constructKids(_, _)
\* new View({model: model}) for each child view object
constructKids(w, n) ==
    IF n = 0 THEN w ELSE View_initialize(constructKids(w, n - 1), n, ModelOf(n))

\* new View() for the parent and the child view objects, nothing added yet
NewTree ==
    constructKids(
        [children |-> <<>>, childrenDefined |-> FALSE, childrenMap |-> <<>>,
         destroyed |-> [v \in {Parent} \cup Kids |-> FALSE],
         rendered |-> [v \in {Parent} \cup Kids |-> FALSE],
         emitted |-> [v \in {Parent} \cup Kids |-> 0],
         modelHandlers |-> {}, viewHandlers |-> {}, log |-> <<>>],
        NKids)

\* ------------------------------------------------------------------ teardown
\* values compared with ===: the collection, and the collection view as the
\* context of its subscriptions
CollectionObj == <<"collection", 0>>
ThisView == <<"view", Parent>>

\* the subscriptions of the constructors: CollectionView.initialize
\* subscribes to remove, add and sort when it has a collection, then
\* TableView.initialize to toggleShowAll (without a collection it throws)
Subscriptions(isTable, hasCollection) ==
    LET own == IF hasCollection
               THEN Events_on(Events_on(Events_on({},
                        CollectionObj, "remove", Fn("removeItemView"), ThisView),
                        CollectionObj, "add", Fn("addItemView"), ThisView),
                        CollectionObj, "sort", Fn("onCollectionSort"), ThisView)
               ELSE {}
    IN  IF isTable /\ hasCollection
        THEN Events_on(own, CollectionObj, "toggleShowAll", Fn("toggleShowAll"), ThisView)
        ELSE own

\* Backbone.Events.off(null, null, context) on obj: drops every handler of
\* obj whose context is the one given
Events_offContext(handlers, obj, context) ==
    {h \in handlers : ~(h.obj = obj /\ h.context = context)}

\* CollectionView.destroy that leaves the collection's handlers in place
CollectionView_destroy_NoOff(handlers, hasCollection) == handlers

\* CollectionView.destroy, its own part: this.collection.off(null, null, this)
CollectionView_destroy(handlers, hasCollection) ==
    IF hasCollection THEN Events_offContext(handlers, CollectionObj, ThisView)
    ELSE handlers

RECURSIVE destroyItems(_, _)
\* _(this.children).each(function (view) { view.destroy(); })
destroyItems(self, views) ==
    IF views = <<>> THEN self
    ELSE destroyItems(destroyItem(self, Head(views)), Tail(views))

\* View.destroy applied to the collection view: every child is destroyed and
\* stays in the children list; "destroy" is triggered
View_destroySelf(self) ==
    LET cascaded == IF self.childrenDefined THEN destroyItems(self, self.children)
                    ELSE self
    IN  [cascaded EXCEPT !.triggered = Append(@, "destroy")]

\* ------------------------------------------------------------------ initial states
\* new TableView(options) when isTable, new CollectionView(options) otherwise;
\* hasCollection is whether options.collection is given.  A collection view
\* has no columns and no multiple selection.  When the constructor throws,
\* the fields are those assigned before the exception.
ConstructView(isTable, hasCollection, coll, optLimit, cols, multiple) ==
    LET self == IF isTable THEN TableView_initialize(hasCollection, coll, optLimit)
                ELSE CollectionView_initialize(hasCollection, coll, optLimit)
    IN  /\ collection = IF hasCollection THEN coll ELSE <<>>
        /\ collectionDefined = hasCollection
        /\ sortColumn = <<>>
        /\ sortOrder = <<>>
        /\ columns = IF isTable THEN cols ELSE <<>>
        /\ multipleSelection = IF isTable /\ ~self.thrown THEN multiple ELSE FALSE
        /\ children = self.children
        /\ childrenDefined = self.childrenDefined
        /\ container = self.container
        /\ rendered = self.rendered
        /\ limit = self.limit
        /\ storedLimit = self.storedLimit
        /\ showAll = self.showAll
        /\ searchFilter = self.searchFilter
        /\ itemRendered = self.itemRendered
        /\ destroyed = self.destroyed
        /\ modelBound = self.modelBound
        /\ collectionHandlers = Subscriptions(isTable, hasCollection)
        /\ viewDestroyed = FALSE
        /\ theads = self.theads
        /\ selected = self.selected
        /\ triggered = <<>>
        /\ console = <<>>
        /\ sortCalls = <<>>
        /\ thrown = self.thrown
        /\ tree = NewTree
        /\ registered = <<>>

\* new TableView({collection, limit, columns, multipleSelection})
Construct(coll, optLimit, cols, multiple) ==
    ConstructView(TRUE, TRUE, coll, optLimit, cols, multiple)

\* a table without columns and without multiple selection, any collection
Init ==
    \E coll \in Collections, optLimit \in 0..MaxLimit :
        Construct(coll, optLimit, <<>>, FALSE)

\* ------------------------------------------------------------------ actions
\* what search() is called with
SearchInputs == { <<>>, <<" ", " ">>, <<" ", "B", " ">>, <<"z", "z">> }

\* collection.add(model, {at: i}) and its "add" event
CollectionAdd ==
    \E model \in Models \ Range(collection), i \in 1..(Len(collection) + 1) :
        LET coll == InsertAt(collection, i, model)
            self == addItemView(Self, coll, model, FALSE)
        IN  /\ collection' = coll
            /\ Commit(self)
            /\ UNCHANGED <<collectionDefined, sortColumn, sortOrder, columns, multipleSelection>>

\* collection.remove(model) and its "remove" event
CollectionRemove ==
    \E model \in Range(collection) :
        LET coll == Without(collection, model)
            self == removeItemView(Self, coll, model)
        IN  /\ collection' = coll
            /\ Commit(self)
            /\ UNCHANGED <<collectionDefined, sortColumn, sortOrder, columns, multipleSelection>>

\* collection.sort() under any comparator, and its "sort" event
CollectionSort ==
    \E coll \in Perms(collection) :
        LET self == onCollectionSort(Self, coll)
        IN  /\ collection' = coll
            /\ Commit(self)
            /\ UNCHANGED <<collectionDefined, sortColumn, sortOrder, columns, multipleSelection>>

Search ==
    \E value \in SearchInputs :
        LET self == search(Self, collection, value)
        IN  /\ Commit(self)
            /\ UNCHANGED <<collectionVars, columns, multipleSelection>>

\* the collection's "toggleShowAll" event
ToggleShowAll ==
    LET self == toggleShowAll(Self, collection)
    IN  /\ Commit(self)
        /\ UNCHANGED <<collectionVars, columns, multipleSelection>>

Render ==
    /\ columns = <<>> \/ Len(theads) < MaxTheads
    /\ Commit(tableRender(Self, columns, collection, sortColumn, sortOrder))
    /\ UNCHANGED <<collectionVars, columns, multipleSelection>>

\* collection.sortByColumn(column, order), the collaborator's side: the orders
\* the models may be left in before its "sort" event
sortByColumn(coll, column, order) == Perms(coll)

\* "click th a": sort(e), then what the recorded sortByColumn call does
HeaderClick ==
    \E a \in Affectors(theads) :
        LET clicked == sort(Self, collection, a)
        IN  IF clicked.sortCalls = <<>>
            THEN /\ Commit(clicked)
                 /\ UNCHANGED <<collectionVars, columns, multipleSelection>>
            ELSE \E coll \in sortByColumn(collection, clicked.sortCalls[1].column,
                                          clicked.sortCalls[1].order) :
                    /\ collection' = coll
                    /\ sortColumn' = clicked.sortCalls[1].column
                    /\ sortOrder' = clicked.sortCalls[1].order
                    /\ Commit(onCollectionSort(clicked, coll))
                    /\ UNCHANGED <<collectionDefined, columns, multipleSelection>>

\* "click tr.resourceMain>td": select(eventElement) for a click in a row of
\* the table
RowClick ==
    \E i \in 1..Len(container), targetIsTd \in BOOLEAN :
        /\ Commit(select(Self, multipleSelection, container[i], targetIsTd))
        /\ UNCHANGED <<collectionVars, columns, multipleSelection>>

Next ==
    \/ CollectionAdd
    \/ CollectionRemove
    \/ CollectionSort
    \/ Search
    \/ ToggleShowAll
    \/ Render

Spec == Init /\ [][Next]_vars

\* ---- add and remove events alone
NextAddRemove ==
    \/ CollectionAdd
    \/ CollectionRemove
    \/ Render

SpecAddRemove == Init /\ [][NextAddRemove]_vars

\* ---- a table with a header: columns "Name", "Status" and "Notes"
HeaderColumns ==
    << <<"N", "a", "m", "e">>, <<"S", "t", "a", "t", "u", "s">>, <<"N", "o", "t", "e", "s">> >>

InitHeader ==
    \E coll \in Collections : Construct(coll, Null, HeaderColumns, FALSE)

NextHeader ==
    \/ Render
    \/ HeaderClick
    \/ CollectionAdd
    \/ CollectionRemove

SpecHeader == InitHeader /\ [][NextHeader]_vars

\* ---- a table whose rows are clicked
InitSelect ==
    \E coll \in Collections, optLimit \in 0..MaxLimit, multiple \in BOOLEAN :
        Construct(coll, optLimit, <<>>, multiple)

NextSelect ==
    \/ Render
    \/ RowClick
    \/ CollectionAdd
    \/ CollectionRemove

SpecSelect == InitSelect /\ [][NextSelect]_vars

\* ---- a plain View and its children
\* the tree at the start of a call: nothing logged yet
Tree == [tree EXCEPT !.log = <<>>]

\* no view emits more "destroy" notifications than are counted
WithinCount(w) == \A v \in DOMAIN w.emitted : w.emitted[v] <= MaxDestroys

Register(key, childView) ==
    [k \in (DOMAIN registered) \cup {key} |-> IF k = key THEN childView ELSE registered[k]]

\* parent.add(childView)
ViewAdd ==
    \E childView \in Kids :
        /\ ~tree.destroyed[Parent]
        /\ Len(tree.children) < MaxChildren
        /\ tree' = View_add(Tree, NoId, childView)
        /\ registered' = Register(CidKey(childView), childView)
        /\ UNCHANGED <<collectionVars, viewVars, tableVars, outVars>>

\* parent.add(childId, childView)
ViewAddAs ==
    \E childId \in ChildIds, childView \in Kids :
        /\ ~tree.destroyed[Parent]
        /\ Len(tree.children) < MaxChildren
        /\ tree' = View_add(Tree, childId, childView)
        /\ registered' = Register(childId, childView)
        /\ UNCHANGED <<collectionVars, viewVars, tableVars, outVars>>

\* parent.remove(childView)
ViewRemove ==
    \E childView \in Kids :
        /\ ~tree.destroyed[Parent]
        /\ tree' = View_remove(Tree, childView)
        /\ UNCHANGED <<registered, collectionVars, viewVars, tableVars, outVars>>

\* view.destroy() called by the owner of a view that is not destroyed yet
ViewDestroy ==
    \E v \in {Parent} \cup Kids :
        /\ ~tree.destroyed[v]
        /\ WithinCount(View_destroy(Tree, v))
        /\ tree' = View_destroy(Tree, v)
        /\ UNCHANGED <<registered, collectionVars, viewVars, tableVars, outVars>>

\* the model of a child view signals "destroy"
ModelDestroy ==
    \E v \in Kids :
        /\ WithinCount(modelTrigger(Tree, ModelOf(v), "destroy"))
        /\ tree' = modelTrigger(Tree, ModelOf(v), "destroy")
        /\ UNCHANGED <<registered, collectionVars, viewVars, tableVars, outVars>>

\* the model of a child view signals "change"
ModelChange ==
    \E v \in Kids :
        /\ tree' = modelTrigger(Tree, ModelOf(v), "change")
        /\ UNCHANGED <<registered, collectionVars, viewVars, tableVars, outVars>>

\* parent.render()
ViewRender ==
    /\ tree' = View_render(Tree, Parent)
    /\ UNCHANGED <<registered, collectionVars, viewVars, tableVars, outVars>>

InitTree == Construct(<<>>, Null, <<>>, FALSE)

\* add, remove and get
NextChildren ==
    \/ ViewAdd
    \/ ViewAddAs
    \/ ViewRemove

SpecChildren == InitTree /\ [][NextChildren]_vars

\* destruction and the model's events
NextDestroy ==
    \/ ViewAdd
    \/ ViewRemove
    \/ ViewDestroy
    \/ ModelDestroy
    \/ ModelChange
    \/ ViewRender

SpecDestroy == InitTree /\ [][NextDestroy]_vars

\* ---- construction with and without a collection, then render()
InitConstruct ==
    \E isTable \in BOOLEAN, hasCollection \in BOOLEAN, coll \in Collections,
       optLimit \in 0..MaxLimit, cols \in {<<>>, HeaderColumns} :
        ConstructView(isTable, hasCollection, coll, optLimit, cols, FALSE)

\* render() of a view whose constructor returned
RenderConstructed ==
    /\ ~thrown
    /\ Render

NextConstruct == RenderConstructed

SpecConstruct == InitConstruct /\ [][NextConstruct]_vars

\* ---- destroy() of the collection view, and the collection's events around it
\* some handler is subscribed to the collection's event
Subscribed(name) == Listeners(collectionHandlers, CollectionObj, name) # {}

\* what an event leaves alone when no handler is subscribed to it
Unheard ==
    UNCHANGED <<collectionDefined, sortColumn, sortOrder, viewVars, tableVars, outVars, treeVars>>

\* collection.add(model, {at: i}): the "add" event reaches the subscribed handler
AddEvent ==
    IF Subscribed("add") THEN CollectionAdd
    ELSE \E model \in Models \ Range(collection), i \in 1..(Len(collection) + 1) :
            collection' = InsertAt(collection, i, model) /\ Unheard

\* collection.remove(model) and its "remove" event
RemoveEvent ==
    IF Subscribed("remove") THEN CollectionRemove
    ELSE \E model \in Range(collection) :
            collection' = Without(collection, model) /\ Unheard

\* collection.sort() and its "sort" event
SortEvent ==
    IF Subscribed("sort") THEN CollectionSort
    ELSE \E coll \in Perms(collection) : collection' = coll /\ Unheard

\* collection.trigger("toggleShowAll")
ToggleShowAllEvent ==
    IF Subscribed("toggleShowAll") THEN ToggleShowAll
    ELSE UNCHANGED vars

\* render() of a view that is not destroyed
RenderLive ==
    /\ ~viewDestroyed
    /\ Render

\* destroy() of the collection view: CollectionView.destroy, then View.destroy
Destroy ==
    /\ ~viewDestroyed
    /\ collectionHandlers' = CollectionView_destroy(collectionHandlers, collectionDefined)
    /\ viewDestroyed' = TRUE
    /\ CommitView(View_destroySelf(Self))
    /\ UNCHANGED <<collectionVars, columns, multipleSelection>>

NextTeardown ==
    \/ AddEvent
    \/ RemoveEvent
    \/ SortEvent
    \/ ToggleShowAllEvent
    \/ RenderLive
    \/ Destroy

\* a collection view or a table, with a collection
InitTeardown ==
    \E isTable \in BOOLEAN, coll \in Collections, optLimit \in 0..MaxLimit :
        ConstructView(isTable, TRUE, coll, optLimit, <<>>, FALSE)

SpecTeardown == InitTeardown /\ [][NextTeardown]_vars

\* ================================================================== claims
\* the models of a sequence of views
ViewModels(views) == [i \in 1..Len(views) |-> views[i].model]

\* two models have the same identity: same cid, or same non-null id
SameIdentity(m1, m2) == m1 = m2 \/ (ModelId(m1) # <<>> /\ ModelId(m1) = ModelId(m2))

HasView(views, model) == \E i \in 1..Len(views) : views[i].model = model

\* ------------------------------------------------------------------ C1
\* C1: with a limit set, after initialization and after any sequence of
\* collection add and remove events (backfill included) the children list
\* holds at most limit views.
C1_ChildrenWithinLimit == limit # Null => Len(children) <= limit

\* a remove event has backfilled a capped list up to its limit
C1_Witness ==
    /\ limit # Null
    /\ triggered = <<"remove", "add">>
    /\ Len(children) = limit
    /\ Len(collection) > limit

\* ------------------------------------------------------------------ C2
\* C2: after any sequence of add, remove and sort events and of search and
\* toggleShowAll calls no two children are bound to models of the same
\* identity; an add for a model that has a child view creates no second one.
C2_NoDuplicateViews ==
    \A i, j \in 1..Len(children) :
        i # j => ~SameIdentity(children[i].model, children[j].model)

\* addItemView has met a model that already had a child view, and refused
C2_Witness ==
    /\ "view exists, don't add" \in Range(console)
    /\ children # <<>>

\* ------------------------------------------------------------------ C3
\* C3: backfill.  With limit = N, N + 1 models passing the filter and N child
\* views, a remove event for a model that has a child view leaves N child
\* views again, the new one being the view of the next eligible model in
\* collection order, provided an eligible model without a view exists after
\* the visible ones; for every filter and every position of the filtered-out
\* models.
C3_Backfill ==
    \A model \in Range(collection) :
        LET coll == Without(collection, model)
            after == removeItemView(Self, coll, model)
            kept == SelectSeq(children, LAMBDA view : view.model # model)
            \* positions of the eligible models without a view that come
            \* after every model that has one
            next == {i \in 1..Len(coll) :
                        /\ checkFilter(Self, coll[i])
                        /\ ~HasView(kept, coll[i])
                        /\ \A j \in 1..Len(coll) : HasView(kept, coll[j]) => j < i}
            first == CHOOSE i \in next : \A j \in next : i <= j
        IN  (/\ limit # Null
             /\ Len(children) = limit
             /\ Cardinality({m \in Range(collection) : checkFilter(Self, m)}) = limit + 1
             /\ HasView(children, model)
             /\ next # {})
            => /\ Len(after.children) = limit
               /\ SubSeq(after.children, 1, limit - 1) = kept
               /\ after.children[limit].model = coll[first]

\* ------------------------------------------------------------------ C4
\* C4: running onCollectionSort twice in succession, nothing changed in
\* between, leaves after the second run the children list and the displayed
\* sequence of the first run.
C4_SortIdempotent ==
    LET once == onCollectionSort(Self, collection)
        twice == onCollectionSort(once, collection)
    IN  /\ twice.children = once.children
        /\ twice.container = once.container

\* ------------------------------------------------------------------ C5
\* the models search("") has to display: those passing the collection
\* filter, in collection order, up to the limit
UpToLimit(models, lim) ==
    IF lim # Null /\ lim < Len(models) THEN SubSeq(models, 1, lim) ELSE models

\* C5: on a rendered view, search(s) with an s no model matches displays no
\* child view, and a following search("") displays the views of the models
\* passing the collection filter, up to the limit.
C5_SearchNoneThenAll ==
    rendered =>
        \A value \in SearchInputs :
            LET none == search(Self, collection, value)
                all == search(none, collection, <<>>)
            IN  (\A model \in Range(collection) : ~checkSearchFilter(none, model))
                => /\ none.container = <<>>
                   /\ ViewModels(all.container)
                        = UpToLimit(SelectSeq(collection, CollectionCheckFilter), limit)
                   /\ Range(all.container) \subseteq Range(all.children)
                   /\ Cardinality(Range(all.container)) = Len(all.container)

\* a search nothing matches has emptied the display of a rendered view that
\* has children
C5_Witness ==
    /\ rendered
    /\ searchFilter = <<"z", "z">>
    /\ container = <<>>
    /\ children # <<>>
    /\ \E model \in Range(collection) : CollectionCheckFilter(model)

\* ------------------------------------------------------------------ C6
\* C6: on a rendered table with limit L and M > L matching models the first
\* toggleShowAll displays all M child views, the second displays the views
\* of the first L matching models and sets the limit back to L.
C6_ToggleShowAll ==
    LET matching == SelectSeq(collection, LAMBDA model : checkFilter(Self, model))
        on == toggleShowAll(Self, collection)
        off == toggleShowAll(on, collection)
    IN  (rendered /\ ~showAll /\ limit # Null /\ Len(matching) > limit)
        => /\ ViewModels(on.container) = matching
           /\ ViewModels(off.container) = SubSeq(matching, 1, limit)
           /\ off.limit = limit
           /\ ~off.showAll

\* "show all" was entered and left again: the limit is back, the display is
\* capped, and the views made for "show all" are still children
C6_Witness ==
    /\ rendered
    /\ ~showAll
    /\ limit # Null
    /\ console = <<"toggleShowAll">>
    /\ Len(container) = limit
    /\ Len(children) > limit

\* ------------------------------------------------------------------ C7
\* the direction a click asks for: descending after ascending, else ascending
NextDirection(icon) == IF icon = "up" THEN "desc" ELSE "asc"

ExpectedSortCall(a) ==
    [column |-> toLowerCase(theads[a[1]][a[2]].title),
     order |-> NextDirection(theads[a[1]][a[2]].icon)]

\* C7 as claimed: every click on a sortable header's affector invokes
\* collection.sortByColumn exactly once, with the lowercased title and the
\* next direction.
C7_EveryClickSorts ==
    \A a \in Affectors(theads) :
        sort(Self, collection, a).sortCalls = <<ExpectedSortCall(a)>>

\* C7 as amended: a click on an affector while the collection holds more than
\* one model invokes sortByColumn exactly once, with the lowercased title and
\* the next direction; with at most one model it invokes nothing and leaves
\* the header as it is.
C7_ClickSortsWhenSeveral ==
    \A a \in Affectors(theads) :
        LET clicked == sort(Self, collection, a)
        IN  IF Len(collection) > 1
            THEN clicked.sortCalls = <<ExpectedSortCall(a)>>
            ELSE clicked.sortCalls = <<>> /\ clicked.theads = theads

\* the second click on "Name" has asked for the descending order
C7_Witness ==
    /\ sortCalls = <<[column |-> <<"n", "a", "m", "e">>, order |-> "desc"]>>
    /\ sortColumn = <<"n", "a", "m", "e">>
    /\ sortOrder = "desc"

\* ------------------------------------------------------------------ C8
\* C8 as claimed: in multi-select mode "selected" is emitted only by a click
\* that makes an empty selection non-empty, "unselected" only by one that
\* makes a non-empty selection empty; any other click emits neither.
C8_NotifiesOnTransition ==
    multipleSelection =>
        \A i \in 1..Len(container), targetIsTd \in BOOLEAN :
            LET clicked == select(Self, multipleSelection, container[i], targetIsTd)
                before == SelectedRows(Self) # {}
                after == SelectedRows(clicked) # {}
            IN  clicked.triggered =
                    IF ~before /\ after THEN <<"selected">>
                    ELSE IF before /\ ~after THEN <<"unselected">>
                    ELSE <<>>

\* C8 as amended: in multi-select mode every row click emits exactly one
\* notification, "selected" when a row is selected after the click and
\* "unselected" when none is.
C8_NotifiesOnEveryClick ==
    multipleSelection =>
        \A i \in 1..Len(container), targetIsTd \in BOOLEAN :
            LET clicked == select(Self, multipleSelection, container[i], targetIsTd)
            IN  clicked.triggered =
                    IF SelectedRows(clicked) # {} THEN <<"selected">> ELSE <<"unselected">>

\* a click has selected a second row and "selected" was emitted again
C8_Witness ==
    /\ multipleSelection
    /\ triggered = <<"selected">>
    /\ Cardinality(SelectedRows(Self)) >= 2

\* ------------------------------------------------------------------ C9
\* C9: whenever a numeric limit is configured the children list holds at most
\* limit views after every handler, sort events, search calls and
\* toggleShowAll included.
C9_ChildrenWithinLimitAlways == limit = Null \/ Len(children) <= limit

\* ------------------------------------------------------------------ C10
\* the position of a model in the collection
IndexOf(coll, model) == CHOOSE i \in 1..Len(coll) : coll[i] = model

\* C10: after a full reconciliation pass the views of the children list are
\* in the order of their models in the collection.
C10_ChildrenInCollectionOrder ==
    LET pass == onCollectionSort(Self, collection)
    IN  \A i, j \in 1..Len(pass.children) :
            i < j => IndexOf(collection, pass.children[i].model)
                        < IndexOf(collection, pass.children[j].model)

\* ------------------------------------------------------------------ C11
\* C11: after any sequence of add and remove calls on a View, get(id) returns
\* the child view most recently registered under id if that view is still a
\* child, and undefined otherwise; never a view registered under another id.
C11_GetReturnsRegistered ==
    \A childId \in Keys :
        View_get(tree, childId) =
            IF childId \in DOMAIN registered /\ registered[childId] \in Range(tree.children)
            THEN registered[childId]
            ELSE NoView

\* ------------------------------------------------------------------ C12
\* C12: in every reachable state a View whose destroyed flag is true has an
\* empty children list.
C12_DestroyedHasNoChildren == tree.destroyed[Parent] => tree.children = <<>>

\* ------------------------------------------------------------------ C13
\* C13: after destroy() a View is no longer subscribed to its model: a later
\* "change" of the model does not invoke onModelChange, and a later "destroy"
\* of the model does not invoke destroy again, so that it emits no second
\* "destroy" notification.
C13_UnsubscribedAfterDestroy ==
    \A v \in Kids :
        tree.destroyed[v] =>
            /\ modelTrigger(Tree, ModelOf(v), "change").log = <<>>
            /\ modelTrigger(Tree, ModelOf(v), "destroy").emitted[v] = tree.emitted[v]
            /\ modelTrigger(Tree, ModelOf(v), "destroy") = Tree

\* ------------------------------------------------------------------ C14
\* C14: when a child registered through add is destroyed, by a destroy() call
\* or by its model's "destroy", the parent is notified and drops the child
\* from its children list.
C14_ParentPrunesDestroyedChild ==
    \A childView \in Range(tree.children) :
        (~tree.destroyed[Parent] /\ ~tree.destroyed[childView]) =>
            /\ childView \notin Range(View_destroy(Tree, childView).children)
            /\ childView \notin Range(modelTrigger(Tree, ModelOf(childView), "destroy").children)

\* ------------------------------------------------------------------ C15
\* C15: the rendered flag is false from construction until render() is first
\* invoked, is true after any render() call, and no other operation (add and
\* remove events, sort events, search, toggleShowAll) changes it.
C15_RenderedFlag ==
    /\ ~rendered
    /\ [][/\ Render => rendered'
          /\ rendered' # rendered => Render]_vars

\* a rendered view has handled a remove event with its backfill, and is
\* still rendered
C15_Witness ==
    /\ rendered
    /\ triggered = <<"remove", "add">>
    /\ container # <<>>

\* ------------------------------------------------------------------ C16
\* C16: constructing and rendering a CollectionView or a TableView with no
\* bound collection raises no error and yields a view with no child views.
C16_NoCollectionIsValid ==
    ~collectionDefined =>
        /\ ~thrown
        /\ children = <<>>
        /\ container = <<>>

\* ------------------------------------------------------------------ C17
\* C17: a collection remove event for a model that has no child view raises
\* no error and leaves the children list and the displayed content as they
\* were, in every state, a view that never had a child included.
C17_RemoveWithoutViewIsNoop ==
    \A model \in Range(collection) :
        ~HasView(children, model) =>
            LET after == removeItemView(Self, Without(collection, model), model)
            IN  /\ ~after.thrown
                /\ after.children = children
                /\ after.container = container

\* ------------------------------------------------------------------ C18
\* before render(): no child element is in the items container and no child
\* has been rendered
NothingAttached == container = <<>> /\ itemRendered = {}

\* after render(): an add event that is accepted puts the new child's
\* element last in the items container and renders the child
AcceptedAddAppends ==
    \A model \in Models \ Range(collection), i \in 1..(Len(collection) + 1) :
        LET after == addItemView(Self, InsertAt(collection, i, model), model, FALSE)
            view == after.children[Len(after.children)]
        IN  Len(after.children) = Len(children) + 1 =>
                /\ after.container = Append(container, view)
                /\ view.model = model
                /\ view.cid \in after.itemRendered

\* C18: child views are rendered and attached to the items container only
\* once the collection view has been rendered: before the first render() no
\* operation renders or attaches a child; after it, an accepted add event
\* appends the new child's element last and renders it at once.
C18_AttachedOnlyOnceRendered ==
    IF rendered THEN AcceptedAddAppends ELSE NothingAttached

\* ------------------------------------------------------------------ C19
\* the items container shows the views, all of them children, of the first
\* models of coll that pass checkFilter, up to the limit, in collection order
Displays(self, coll) ==
    /\ ViewModels(self.container)
            = UpToLimit(SelectSeq(coll, LAMBDA model : checkFilter(self, model)), self.limit)
    /\ Range(self.container) \subseteq Range(self.children)

\* C19: on a rendered view, after onCollectionSort has run (sort event,
\* search or toggleShowAll) the items container displays exactly the views of
\* the first min(limit, k) of the k models passing checkFilter (all k when
\* limit is null), one view per model, in collection order.
C19_SortDisplaysFiltered ==
    rendered =>
        /\ \A coll \in Perms(collection) : Displays(onCollectionSort(Self, coll), coll)
        /\ \A value \in SearchInputs : Displays(search(Self, collection, value), collection)
        /\ Displays(toggleShowAll(Self, collection), collection)

\* a sort event on a rendered, capped view has made a view for a model that
\* moved into the first places, with a filtered-out model in the collection
C19_Witness ==
    /\ rendered
    /\ limit # Null
    /\ triggered = <<"add">>
    /\ Len(children) > limit
    /\ Len(container) = limit
    /\ \E model \in Range(collection) : ~CollectionCheckFilter(model)

\* ------------------------------------------------------------------ C20
\* C20: on a collection remove event for a model that has a child view, that
\* view is removed from the children list, and it is destroyed if and only
\* if the collection view is rendered at that moment.
C20_RemoveDropsView ==
    \A idx \in 1..Len(children) :
        LET view == children[idx]
            after == removeItemView(Self, Without(collection, view.model), view.model)
        IN  view.model \in Range(collection) =>
                /\ \A kept \in Range(after.children) : kept.cid # view.cid
                /\ ~HasView(after.children, view.model)
                /\ view.cid \in after.destroyed <=> rendered
                /\ rendered => view \notin Range(after.container)

\* a remove event on a rendered view has dropped and destroyed the view of
\* the model, the other children staying displayed
C20_Witness ==
    /\ rendered
    /\ triggered = <<"remove">>
    /\ children # <<>>
    /\ container = children
    /\ Len(collection) = Len(children)

\* ------------------------------------------------------------------ C21
\* the handler of an add event for model: the collection holds the model
\* when the handler runs
AddEventFor(model) ==
    {addItemView(Self, coll, model, FALSE) :
        coll \in IF model \in Range(collection) THEN {collection}
                 ELSE {InsertAt(collection, i, model) : i \in 1..(Len(collection) + 1)}}

\* C21: an add event leaves the children list and the displayed content
\* unchanged, and creates no view, when a child view exists for the model's
\* identity, when the children count has reached the limit, or when
\* checkFilter rejects the model.
C21_RefusedAddChangesNothing ==
    \A model \in Models :
        (\/ \E view \in Range(children) : SameIdentity(view.model, model)
         \/ limit # Null /\ Len(children) >= limit
         \/ ~checkFilter(Self, model))
        => \A after \in AddEventFor(model) :
                /\ after.children = children
                /\ after.container = container
                /\ after.itemRendered = itemRendered
                /\ after.triggered = <<>>

\* an add event at the head of a full list was refused: the first model of
\* the collection passes the filter and has no view
C21_Witness ==
    /\ limit # Null
    /\ Len(children) = limit
    /\ triggered = <<>>
    /\ console = <<>>
    /\ collection # <<>>
    /\ checkFilter(Self, collection[1])
    /\ ~HasView(children, collection[1])
    /\ \A view \in Range(children) : view.model \in Range(collection)

\* ------------------------------------------------------------------ C22
\* every child of the present view is a child after the pass, is destroyed
\* after it only if it was before, and is subscribed to its model after it
\* if it was before
KeepsChildren(self) ==
    \A child \in Range(children) :
        /\ child \in Range(self.children)
        /\ child.cid \in self.destroyed => child.cid \in destroyed
        /\ child.cid \in modelBound => child.cid \in self.modelBound

\* C22: the reconciliation pass (sort event, search, toggleShowAll) never
\* destroys a child view: a child whose model is beyond the limit or fails
\* the filter is left out of the displayed content only; it stays a child,
\* is not marked destroyed and keeps its model subscriptions.
C22_SortNeverDestroys ==
    /\ \A coll \in Perms(collection) : KeepsChildren(onCollectionSort(Self, coll))
    /\ \A value \in SearchInputs : KeepsChildren(search(Self, collection, value))
    /\ KeepsChildren(toggleShowAll(Self, collection))

\* after a pass on a rendered, capped view a child is left out of the
\* displayed content: it is neither destroyed nor unsubscribed
C22_Witness ==
    /\ rendered
    /\ limit # Null
    /\ Len(container) = limit
    /\ \E child \in Range(children) :
            /\ child \notin Range(container)
            /\ child.cid \notin destroyed
            /\ child.cid \in modelBound
            /\ child.model \in Range(collection)

C24_DisplayedWithinLimit == limit # Null => Len(container) <= limit

\* ------------------------------------------------------------------ C25
\* C25: after destroy() of the collection view, no handler of the view is
\* subscribed to the collection's add, remove, sort and toggleShowAll events,
\* and from then on the children list, the limit and the displayed content
\* stay as they are and no child view is created, whatever events follow.
C25_DestroyedViewIgnoresEvents ==
    /\ [](viewDestroyed =>
            \A name \in {"add", "remove", "sort", "toggleShowAll"} : ~Subscribed(name))
    /\ [][viewDestroyed =>
            UNCHANGED <<children, childrenDefined, limit, storedLimit, showAll,
                        container, itemRendered, modelBound>>]_vars

\* after destroy() a model has left the collection and another has joined
\* it: the view of the first is still a child, the second has no view though
\* it passes the filter and there is no limit
C25_Witness ==
    /\ viewDestroyed
    /\ limit = Null
    /\ \E child \in Range(children) : child.model \notin Range(collection)
    /\ \E model \in Range(collection) :
            checkFilter(Self, model) /\ ~HasView(children, model)

====
